---- MODULE Spec2Model ----
(***************************************************************************)
(* Model of eva.core.trainers.functional: run_evaluation_session,          *)
(* run_evaluation, fit_and_validate and infer_model.                       *)
(*                                                                         *)
(* The module is sequential orchestration of framework calls.  Every call  *)
(* site of functional.py is one action.  What a framework call returns,    *)
(* whether it raises, and what it writes to the datamodule it is handed    *)
(* are inputs, drawn from small sets.                                      *)
(***************************************************************************)
EXTENDS Integers, Sequences, FiniteSets, TLC

\* ------------------------------------------------------------------ bounds
MaxRuns == 2

\* ------------------------------------------------------------------ values
\* Python's None and a present value, as sequences of length 0 and 1.
\* Every optional value of the code (and, for uniformity, the scores) is kept so.
None == <<>>
Some(x) == <<x>>

Scores == {"m1", "m2"}          \* what validate / test can return
Predictions == {None, Some("p1")} \* what predict can return
Errors == {"E1", "E2"}          \* what a framework call can raise
CheckpointTypes == {"best", "last"}
Entries == {"session", "run", "fav", "infer"}
LogDir == "logs"

VARIABLES
    entry,               \* the function of functional.py the caller invoked
    pc,                  \* position in the code (line of the next statement)
    n_runs,              \* run_evaluation_session argument
    verbose,             \* run_evaluation_session argument
    return_predictions,  \* infer_model argument
    run_index,           \* loop variable of run_evaluation_session
    run_id,              \* run_evaluation argument (None or an int)
    run_verbose,         \* verbose argument of run_evaluation / fit_and_validate
    objs,                \* trainer/model pairs: objs[0] is the input pair, objs[k] the k-th clone
    cur,                 \* the pair bound to the locals trainer, model
    dm_test,             \* datamodule.datasets.test is not None
    dm_writer,           \* the run that last changed the datamodule (-1: none did)
    dm_reader,           \* the run that last read datamodule.datasets.test (-1: none did)
    dm_read_from,        \* dm_writer as of that read
    validation_scores,   \* local of fit_and_validate
    test_is_none,        \* value of the condition at line 107
    test_scores,         \* local of fit_and_validate
    results,             \* value returned by fit_and_validate / run_evaluation
    run_results,         \* history: the value each completed run_evaluation returned
    recorder,            \* the SessionRecorder
    calls,               \* history: every framework call made, in order
    raised,              \* the exception that reached the caller (None: none)
    returned             \* the value returned to the caller

args == <<entry, n_runs, verbose, return_predictions>>
frame == <<run_index, run_id, run_verbose, cur>>
dmvars == <<dm_test, dm_writer, dm_reader, dm_read_from>>
locals == <<validation_scores, test_is_none, test_scores, results, run_results>>
outcome == <<raised, returned>>
vars == <<args, pc, frame, objs, dmvars, locals, recorder, calls, outcome>>

\* A framework call as it appears in the history: the operation, the pair it
\* is made on (0: the input pair, k: the k-th clone, -1: the recorder), its
\* run_id argument, its verbose / return_predictions argument, its ckpt_path
\* argument, what it returned, whether it returned, and what it raised.
Call(op, on, run, flag, ckpt, ret, ok) ==
    [op |-> op, on |-> on, run |-> run, flag |-> flag, ckpt |-> ckpt,
     ret |-> ret, ok |-> ok, err |-> None]

\* The run a datamodule write is attributed to.
ThisRun == IF entry = "session" THEN run_index ELSE 0

\* ---------------------------------------------------------- trainer/model
\* The state of a (trainer, model) pair that the framework calls change.
NewObj(ck) ==
    [checkpoint_type |-> ck, configured |-> FALSE, open |-> None,
     fitted |-> FALSE, evals |-> 0]

\* The identity of the pair _utils.clone returns: a new one, never the input pair.
CloneIdAlias(os) == 0
CloneId(os) == Cardinality(DOMAIN os)

\* _utils.clone(base_trainer, base_model): a new pair holding a copy of the input pair.
Clone(os) == [k \in 0..CloneId(os) |-> IF k \in DOMAIN os THEN os[k] ELSE os[0]]

\* for run_index in range(n_runs): the loop continues while run_index < n_runs.
RangeHasNextInclusive(i, n) == i <= n
RangeHasNext(i, n) == i < n

\* verbose=not verbose, the flag handed to each run.
RunVerboseSame(v) == v
RunVerbose(v) == ~v

\* datamodule.datasets.test is None
TestIsNoneNever(present) == FALSE
TestIsNone(present) == ~present

\* ckpt_path=trainer.checkpoint_type
CkptPathNone(o) == None
CkptPath(o) == Some(o.checkpoint_type)

\* A framework call that is handed the datamodule may change it: t is the
\* presence of datamodule.datasets.test when the call is over.
DmWrite(t) ==
    /\ dm_test' = t
    /\ dm_writer' = IF t # dm_test THEN ThisRun ELSE dm_writer

\* An exception raised by a framework call: no handler exists anywhere in the
\* module, so it unwinds every frame and reaches the caller as it is.
PropagateWrapped(c, e) ==
    /\ pc' = "raised"
    /\ raised' = Some("RuntimeError")
    /\ calls' = Append(calls, c)
    /\ UNCHANGED <<args, frame, objs, dmvars, locals, recorder, returned>>
PropagateWithSave(c, e) ==
    /\ pc' = "raised"
    /\ raised' = Some(e)
    /\ calls' = Append(Append(calls, c), Call("save", -1, None, None, None, None, TRUE))
    /\ recorder' = [recorder EXCEPT !.saves = @ + 1]
    /\ UNCHANGED <<args, frame, objs, dmvars, locals, returned>>
Propagate(c, e) ==
    /\ pc' = "raised"
    /\ raised' = Some(e)
    /\ calls' = Append(calls, c)
    /\ UNCHANGED <<args, frame, objs, dmvars, locals, recorder, returned>>

Fails(c) == \E e \in Errors : Propagate([c EXCEPT !.ok = FALSE, !.err = Some(e)], e)

\* ------------------------------------------------------------------- Init
Init ==
    /\ entry \in Entries
    /\ n_runs \in IF entry = "session" THEN -1..MaxRuns ELSE {1}
    /\ verbose \in IF entry = "session" THEN BOOLEAN ELSE {TRUE}
    /\ return_predictions \in IF entry = "infer" THEN BOOLEAN ELSE {FALSE}
    /\ run_id \in IF entry = "run" THEN {None} \cup {Some(i) : i \in 0..MaxRuns} ELSE {None}
    /\ run_verbose \in IF entry \in {"run", "fav"} THEN BOOLEAN ELSE {TRUE}
    /\ run_index = 0
    /\ pc = CASE entry = "session" -> "s36"
              [] entry = "run" -> "r70"
              [] entry = "fav" -> "f101"
              [] entry = "infer" -> "i131"
    /\ \E ck \in CheckpointTypes : objs = [k \in {0} |-> NewObj(ck)]
    /\ cur = 0
    /\ dm_test \in BOOLEAN
    /\ dm_writer = -1
    /\ dm_reader = -1
    /\ dm_read_from = -1
    /\ validation_scores = None
    /\ test_is_none = FALSE
    /\ test_scores = None
    /\ results = None
    /\ run_results = <<>>
    /\ recorder = [created |-> FALSE, verbose |-> FALSE, output_dir |-> None,
                   updates |-> <<>>, saves |-> 0]
    /\ calls = <<>>
    /\ raised = None
    /\ returned = None

\* ------------------------------------------------- run_evaluation_session
\* line 36, the argument: base_trainer.default_log_dir is read
SessionLogDir ==
    /\ pc = "s36"
    /\ calls' = Append(calls, Call("default_log_dir", 0, None, None, None, Some(LogDir), TRUE))
    /\ pc' = "s36c"
    /\ UNCHANGED <<args, frame, objs, dmvars, locals, recorder, outcome>>

\* line 36: recorder = SessionRecorder(output_dir=base_trainer.default_log_dir, verbose=verbose)
SessionRecorder ==
    /\ pc = "s36c"
    /\ LET c == Call("SessionRecorder", -1, None, Some(verbose), None, None, TRUE) IN
       \/ /\ recorder' = [created |-> TRUE, verbose |-> verbose,
                          output_dir |-> Some(LogDir), updates |-> <<>>, saves |-> 0]
          /\ calls' = Append(calls, c)
          /\ pc' = "s37"
          /\ UNCHANGED <<args, frame, objs, dmvars, locals, outcome>>
       \/ Fails(c)

\* line 37: for run_index in range(n_runs), and lines 38-44: the call of run_evaluation
SessionLoop ==
    /\ pc = "s37"
    /\ IF RangeHasNext(run_index, n_runs)
       THEN /\ pc' = "r70"
            /\ run_id' = Some(run_index)
            /\ run_verbose' = RunVerbose(verbose)
       ELSE /\ pc' = "s46"
            /\ UNCHANGED <<run_id, run_verbose>>
    /\ UNCHANGED <<args, run_index, cur, objs, dmvars, locals, recorder, calls, outcome>>

\* line 45: recorder.update(validation_scores, test_scores)
UpdateArgsSwapped(r) == <<r[2], r[1]>>
UpdateArgs(r) == <<r[1], r[2]>>

SessionUpdate ==
    /\ pc = "s45"
    /\ LET c == Call("update", -1, None, None, None, None, TRUE) IN
       \/ /\ recorder' = [recorder EXCEPT !.updates = Append(@, UpdateArgs(results))]
          /\ calls' = Append(calls, c)
          /\ run_index' = run_index + 1
          /\ pc' = "s37"
          /\ UNCHANGED <<args, run_id, run_verbose, cur, objs, dmvars, locals, outcome>>
       \/ Fails(c)

\* line 46: recorder.save()
SessionSave ==
    /\ pc = "s46"
    /\ LET c == Call("save", -1, None, None, None, None, TRUE) IN
       \/ /\ recorder' = [recorder EXCEPT !.saves = @ + 1]
          /\ calls' = Append(calls, c)
          /\ pc' = "done"
          /\ returned' = None
          /\ UNCHANGED <<args, frame, objs, dmvars, locals, raised>>
       \/ Fails(c)

\* --------------------------------------------------------- run_evaluation
\* line 70: trainer, model = _utils.clone(base_trainer, base_model)
RunClone ==
    /\ pc = "r70"
    /\ LET c == Call("clone", 0, None, None, None, Some(CloneId(objs)), TRUE) IN
       \/ /\ objs' = Clone(objs)
          /\ cur' = CloneId(objs)
          /\ calls' = Append(calls, c)
          /\ pc' = "r71"
          /\ UNCHANGED <<args, run_index, run_id, run_verbose, dmvars, locals,
                         recorder, outcome>>
       \/ Fails([c EXCEPT !.ret = None])

\* line 71: model.configure_model()
RunConfigureModel ==
    /\ pc = "r71"
    /\ LET c == Call("configure_model", cur, None, None, None, None, TRUE) IN
       \/ /\ objs' = [objs EXCEPT ![cur].configured = TRUE]
          /\ calls' = Append(calls, c)
          /\ pc' = "r73"
          /\ UNCHANGED <<args, frame, dmvars, locals, recorder, outcome>>
       \/ Fails(c)

\* line 73: trainer.init_logger_run(run_id)
RunInitLoggerRun ==
    /\ pc = "r73"
    /\ LET c == Call("init_logger_run", cur, run_id, None, None, None, TRUE) IN
       \/ /\ objs' = [objs EXCEPT ![cur].open = Some(run_id)]
          /\ calls' = Append(calls, c)
          /\ pc' = "f101"
          /\ UNCHANGED <<args, frame, dmvars, locals, recorder, outcome>>
       \/ Fails(c)

\* line 75: trainer.finish_logger_run(run_id)
RunFinishLoggerRun ==
    /\ pc = "r75"
    /\ LET c == Call("finish_logger_run", cur, run_id, None, None, None, TRUE) IN
       \/ /\ objs' = [objs EXCEPT ![cur].open = None]
          /\ calls' = Append(calls, c)
          /\ pc' = "r77"
          /\ UNCHANGED <<args, frame, dmvars, locals, recorder, outcome>>
       \/ Fails(c)

\* line 77: return results (to the caller, or to line 38 of run_evaluation_session)
RunReturn ==
    /\ pc = "r77"
    /\ run_results' = Append(run_results, results)
    /\ IF entry = "run"
       THEN pc' = "done" /\ returned' = results
       ELSE pc' = "s45" /\ returned' = returned
    /\ UNCHANGED <<args, frame, objs, dmvars, validation_scores, test_is_none, test_scores,
                   results, recorder, calls, raised>>

\* ------------------------------------------------------- fit_and_validate
\* line 101: trainer.fit(model, datamodule=datamodule)
FavFit ==
    /\ pc = "f101"
    /\ LET c == Call("fit", cur, None, None, None, None, TRUE) IN
       \/ /\ objs' = [objs EXCEPT ![cur].fitted = TRUE]
          /\ \E t \in BOOLEAN : DmWrite(t)
          /\ UNCHANGED <<dm_reader, dm_read_from>>
          /\ calls' = Append(calls, c)
          /\ pc' = "f102"
          /\ UNCHANGED <<args, frame, locals, recorder, outcome>>
       \/ Fails(c)

\* lines 102-104: validation_scores = trainer.validate(datamodule=..., verbose=..., ckpt_path=...)
FavValidate ==
    /\ pc = "f102"
    /\ \E s \in Scores :
       LET c == Call("validate", cur, None, Some(run_verbose), CkptPath(objs[cur]),
                     Some(s), TRUE) IN
       \/ /\ validation_scores' = Some(s)
          /\ objs' = [objs EXCEPT ![cur].evals = @ + 1]
          /\ \E t \in BOOLEAN : DmWrite(t)
          /\ UNCHANGED <<dm_reader, dm_read_from>>
          /\ calls' = Append(calls, c)
          /\ pc' = "f105"
          /\ UNCHANGED <<args, frame, test_is_none, test_scores, results, run_results,
                         recorder, outcome>>
       \/ Fails([c EXCEPT !.ret = None])

\* line 107: the condition datamodule.datasets.test is None is evaluated
FavCondition ==
    /\ pc = "f105"
    /\ test_is_none' = TestIsNone(dm_test)
    /\ dm_reader' = ThisRun
    /\ dm_read_from' = dm_writer
    /\ calls' = Append(calls, Call("datasets.test", cur, None, None, None, Some(dm_test), TRUE))
    /\ pc' = "f106"
    /\ UNCHANGED <<args, frame, objs, dm_test, dm_writer, validation_scores, test_scores,
                   results, run_results, recorder, outcome>>

\* lines 105-106: test_scores = None, when the condition holds
FavNoTest ==
    /\ pc = "f106"
    /\ test_is_none
    /\ test_scores' = None
    /\ pc' = "f110"
    /\ UNCHANGED <<args, frame, objs, dmvars, validation_scores, test_is_none, results,
                   run_results, recorder, calls, outcome>>

\* lines 105, 108: test_scores = trainer.test(datamodule=..., verbose=..., ckpt_path=...)
FavTest ==
    /\ pc = "f106"
    /\ ~test_is_none
    /\ \E s \in Scores :
       LET c == Call("test", cur, None, Some(run_verbose), CkptPath(objs[cur]),
                     Some(s), TRUE) IN
       \/ /\ test_scores' = Some(s)
          /\ objs' = [objs EXCEPT ![cur].evals = @ + 1]
          /\ \E t \in BOOLEAN : DmWrite(t)
          /\ UNCHANGED <<dm_reader, dm_read_from>>
          /\ calls' = Append(calls, c)
          /\ pc' = "f110"
          /\ UNCHANGED <<args, frame, validation_scores, test_is_none, results,
                         run_results, recorder, outcome>>
       \/ Fails([c EXCEPT !.ret = None])

\* line 110: return validation_scores, test_scores (to the caller, or to line 74)
FavReturn ==
    /\ pc = "f110"
    /\ results' = <<validation_scores, test_scores>>
    /\ IF entry = "fav"
       THEN pc' = "done" /\ returned' = <<validation_scores, test_scores>>
       ELSE pc' = "r75" /\ returned' = returned
    /\ UNCHANGED <<args, frame, objs, dmvars, validation_scores, test_is_none, test_scores,
                   run_results, recorder, calls, raised>>

\* ------------------------------------------------------------ infer_model
\* line 131: trainer, model = _utils.clone(base_trainer, base_model)
InferClone ==
    /\ pc = "i131"
    /\ LET c == Call("clone", 0, None, None, None, Some(CloneId(objs)), TRUE) IN
       \/ /\ objs' = Clone(objs)
          /\ cur' = CloneId(objs)
          /\ calls' = Append(calls, c)
          /\ pc' = "i132"
          /\ UNCHANGED <<args, run_index, run_id, run_verbose, dmvars, locals,
                         recorder, outcome>>
       \/ Fails([c EXCEPT !.ret = None])

\* lines 132-136: return trainer.predict(model=model, datamodule=..., return_predictions=...)
PredictReturnDropped(p) == None
PredictReturn(p) == p

InferPredict ==
    /\ pc = "i132"
    /\ \E p \in Predictions :
       LET c == Call("predict", cur, None, Some(return_predictions), None, Some(p), TRUE) IN
       \/ /\ objs' = [objs EXCEPT ![cur].evals = @ + 1]
          /\ \E t \in BOOLEAN : DmWrite(t)
          /\ UNCHANGED <<dm_reader, dm_read_from>>
          /\ calls' = Append(calls, c)
          /\ returned' = PredictReturn(p)
          /\ pc' = "done"
          /\ UNCHANGED <<args, frame, locals, recorder, raised>>
       \/ Fails([c EXCEPT !.ret = None])

\* ------------------------------------------------------------------- Next
Next ==
    \/ SessionLogDir
    \/ SessionRecorder
    \/ SessionLoop
    \/ SessionUpdate
    \/ SessionSave
    \/ RunClone
    \/ RunConfigureModel
    \/ RunInitLoggerRun
    \/ RunFinishLoggerRun
    \/ RunReturn
    \/ FavFit
    \/ FavValidate
    \/ FavCondition
    \/ FavNoTest
    \/ FavTest
    \/ FavReturn
    \/ InferClone
    \/ InferPredict

Spec == Init /\ [][Next]_vars

\* ======================================================== claim formulas
\* Helpers over the history of calls.
Last(q) == q[Len(q)]
CallsOf(op) == SelectSeq(calls, LAMBDA c : c.op = op)
CallsOn(k) == SelectSeq(calls, LAMBDA c : c.on = k /\ c.op # "clone")
OpsOf(q) == [i \in DOMAIN q |-> q[i].op]
IsPrefix(p, q) == Len(p) <= Len(q) /\ \A i \in DOMAIN p : p[i] = q[i]
\* The number of clones made before the j-th call.
ClonesBefore(j) == Cardinality({i \in 1..(j - 1) : calls[i].op = "clone" /\ calls[i].ok})
StateChanging == {"configure_model", "init_logger_run", "fit", "validate", "test",
                  "finish_logger_run", "predict"}
OutOfPlace == entry \in {"session", "run", "infer"}
Failed == pc = "raised"

\* C1: a session with n_runs = n >= 1 in which no call fails performs the runs
\* 0, 1, ..., n-1 in this order, updates the recorder once after each run with
\* that run's (validation_scores, test_scores), and saves once, after the last
\* update and never before it.
C1_RunsUpdatesSave ==
    (entry = "session" /\ n_runs >= 1 /\ ~Failed) =>
        LET inits == CallsOf("init_logger_run")
            ups == recorder.updates IN
        /\ \A i \in DOMAIN inits : inits[i].run = Some(i - 1)
        /\ Len(inits) <= n_runs
        \* the i-th update carries the result of the i-th run
        /\ Len(ups) <= Len(run_results)
        /\ Len(run_results) <= Len(ups) + 1
        /\ \A i \in DOMAIN ups : ups[i] = run_results[i]
        /\ Len(CallsOf("update")) = Len(ups)
        /\ Len(CallsOf("finish_logger_run")) = Len(run_results) + (IF pc = "r77" THEN 1 ELSE 0)
        /\ pc \in {"s45", "r77"} <=> Len(CallsOf("finish_logger_run")) = Len(ups) + 1
        \* save: at most once, and only after all n updates
        /\ recorder.saves <= 1
        /\ recorder.saves = 1 => (Len(ups) = n_runs /\ pc = "done" /\ Last(calls).op = "save")
        /\ pc = "done" =>
              /\ Len(inits) = n_runs
              /\ Len(ups) = n_runs
              /\ recorder.saves = 1

C1_Witness ==
    /\ entry = "session" /\ n_runs = 2 /\ pc = "done"
    /\ recorder.saves = 1
    /\ Len(recorder.updates) = 2
    /\ recorder.updates[1] # recorder.updates[2]
    /\ recorder.updates[1][2] = None

\* C2: run_evaluation_session, run_evaluation and infer_model leave the input
\* pair as it was: every state-changing call is made on a clone, each run
\* makes its own clone and uses no other, and the input pair is only cloned
\* and read for default_log_dir.
C2_BaseUntouched ==
    OutOfPlace =>
        /\ objs[0] = NewObj(objs[0].checkpoint_type)
        /\ \A j \in DOMAIN calls :
              /\ calls[j].op \in StateChanging =>
                    (calls[j].on >= 1 /\ calls[j].on = ClonesBefore(j))
              /\ calls[j].on = 0 => calls[j].op \in {"clone", "default_log_dir"}
              /\ (calls[j].op = "clone" /\ calls[j].ok) =>
                    calls[j].ret = Some(ClonesBefore(j) + 1)
        /\ entry = "session" =>
              \A j \in DOMAIN calls :
                 calls[j].op = "init_logger_run" => calls[j].run = Some(calls[j].on - 1)

C2_Witness ==
    /\ entry = "session" /\ pc = "done" /\ n_runs = 2
    /\ DOMAIN objs = 0..2
    /\ objs[1].fitted /\ objs[2].fitted
    /\ objs[1].evals >= 1 /\ objs[2].evals >= 1
    /\ ~objs[0].fitted

\* C3: runs of one session do not interfere: no run reads state that an
\* earlier run wrote, the datamodule included.
C3_NoInterference ==
    entry = "session" => dm_read_from \in {-1, dm_reader}

\* C4: fit_and_validate calls trainer.test exactly when datamodule.datasets.test
\* is not None as read after fit and validate; test_scores is None exactly
\* when it is absent and the result of trainer.test otherwise; validate is
\* called once and its result is the first element of the returned tuple.
C4_TestIffPresent ==
    LET mine == CallsOn(cur)
        reads == SelectSeq(mine, LAMBDA c : c.op = "datasets.test")
        vals == SelectSeq(mine, LAMBDA c : c.op = "validate")
        tests == SelectSeq(mine, LAMBDA c : c.op = "test")
        fits == SelectSeq(mine, LAMBDA c : c.op = "fit") IN
    /\ \A j \in DOMAIN calls :
          calls[j].op = "test" =>
             /\ j > 1
             /\ calls[j - 1].op = "datasets.test"
             /\ calls[j - 1].on = calls[j].on
             /\ calls[j - 1].ret = Some(TRUE)
          \* the condition is read after fit and validate
    /\ \A j \in DOMAIN calls :
          calls[j].op = "datasets.test" =>
             /\ j > 2
             /\ calls[j - 1].op = "validate" /\ calls[j - 1].on = calls[j].on
             /\ calls[j - 2].op = "fit" /\ calls[j - 2].on = calls[j].on
    /\ pc \in {"f110", "r75"} \/ (pc = "done" /\ entry = "fav") =>
          /\ Len(fits) = 1 /\ Len(vals) = 1 /\ Len(reads) = 1
          /\ Len(tests) = (IF reads[1].ret = Some(TRUE) THEN 1 ELSE 0)
          /\ test_scores = None <=> reads[1].ret = Some(FALSE)
          /\ test_scores # None => test_scores = tests[1].ret
          /\ validation_scores = vals[1].ret
    /\ pc = "r75" \/ (pc = "done" /\ entry = "fav") =>
          /\ results[1] = vals[1].ret
          /\ results[2] = test_scores
    /\ (pc = "done" /\ entry = "fav") => returned = results

C4_Witness ==
    /\ entry = "fav" /\ pc = "done"
    /\ returned[2] = None
    /\ returned[1] = Some("m2")
    /\ dm_writer = 0
    /\ ~dm_test

\* C5: the recorder is created with verbose = v and every run (its validate
\* and its test call) gets verbose = not v: exactly one of the two levels is
\* verbose, in every session.
C5_VerbosityToggled ==
    entry = "session" =>
        /\ recorder.created => recorder.verbose = verbose
        /\ \A j \in DOMAIN calls :
              calls[j].op \in {"validate", "test"} =>
                 /\ calls[j].flag = Some(~verbose)
                 /\ recorder.created
                 /\ calls[j].flag # Some(recorder.verbose)
        /\ pc \in {"r70", "r71", "r73", "r75", "r77", "f101", "f102", "f105", "f106", "f110"}
              => run_verbose = ~verbose

C5_Witness ==
    /\ entry = "session" /\ ~verbose /\ pc = "done"
    /\ Len(CallsOf("test")) = 2
    /\ Len(CallsOf("validate")) = 2
    /\ ~recorder.verbose

\* C6: what a framework call raises reaches the caller as it was raised: it
\* is not caught, wrapped, retried or replaced, nothing is called after it
\* and no later run is started.
C6_FailurePassedThrough ==
    /\ \A j \in DOMAIN calls :
          ~calls[j].ok => (j = Len(calls) /\ Failed /\ raised = calls[j].err)
    /\ Failed =>
          /\ calls # <<>>
          /\ ~Last(calls).ok
          /\ raised = Last(calls).err
          /\ raised # None
          /\ returned = None
          /\ entry = "session" =>
                /\ Len(CallsOf("clone")) <= run_index + 1
                /\ Len(run_results) <= run_index + 1
    /\ ~Failed => raised = None
    /\ Failed => ~ENABLED Next

C6_Witness ==
    /\ entry = "session" /\ Failed /\ run_index = 1
    /\ Last(calls).op = "fit"
    /\ raised = Some("E2")
    /\ Len(recorder.updates) = 1

\* C7: infer_model makes one predict call, on a clone of the input pair, with
\* the given return_predictions flag, and returns what the call returned; it
\* calls nothing else of the trainer or model and touches no recorder.
C7_InferPredictsOnce ==
    entry = "infer" =>
        /\ \A j \in DOMAIN calls : calls[j].op \in {"clone", "predict"}
        /\ ~recorder.created /\ recorder.updates = <<>> /\ recorder.saves = 0
        /\ Len(CallsOf("predict")) <= 1
        /\ \A j \in DOMAIN calls :
              calls[j].op = "predict" =>
                 /\ calls[j].on = 1
                 /\ j = 2 /\ calls[1].op = "clone" /\ calls[1].ret = Some(1)
                 /\ calls[j].flag = Some(return_predictions)
        /\ pc = "done" =>
              /\ Len(CallsOf("predict")) = 1
              /\ Some(returned) = Last(calls).ret
              /\ objs[0] = NewObj(objs[0].checkpoint_type)

C7_Witness ==
    /\ entry = "infer" /\ pc = "done"
    /\ return_predictions
    /\ returned = Some("p1")

\* C8: within a run of run_evaluation the calls are made in the order clone,
\* configure_model, init_logger_run(run_id), fit, validate, test (when a test
\* dataset is present), finish_logger_run(run_id); so over a session the
\* logger runs are opened and finished one after the other with equal ids, at
\* most one is open at a time, fit, validate and test happen while it is
\* open, and validate and test get ckpt_path = trainer.checkpoint_type.
RunOrderWithTest ==
    <<"configure_model", "init_logger_run", "fit", "validate", "datasets.test", "test",
      "finish_logger_run">>
RunOrderNoTest ==
    <<"configure_model", "init_logger_run", "fit", "validate", "datasets.test",
      "finish_logger_run">>

C8_CallOrder ==
    entry \in {"session", "run"} =>
        /\ \A k \in DOMAIN objs \ {0} :
              LET ops == OpsOf(CallsOn(k)) IN
              /\ IsPrefix(ops, RunOrderWithTest) \/ IsPrefix(ops, RunOrderNoTest)
              /\ (k < cur \/ pc \in {"r77", "s45", "s37", "s46", "done"}) =>
                    ops \in {RunOrderWithTest, RunOrderNoTest}
              /\ Len(ops) >= 2 /\ Last(ops) = "finish_logger_run" =>
                    Last(CallsOn(k)).run = CallsOn(k)[2].run
        \* the calls of a run come after its clone and before the next clone
        /\ \A j \in DOMAIN calls :
              calls[j].on >= 1 => calls[j].on = ClonesBefore(j)
        /\ Cardinality({k \in DOMAIN objs : objs[k].open # None}) <= 1
        /\ \A k \in DOMAIN objs : (objs[k].open # None) => k = cur
        /\ \A j \in DOMAIN calls :
              calls[j].op \in {"validate", "test"} =>
                 calls[j].ckpt = Some(objs[calls[j].on].checkpoint_type)
        /\ pc \in {"f101", "f102", "f105", "f106", "f110", "r75"} =>
              objs[cur].open = Some(run_id)
        /\ pc \in {"r70", "r71", "r73", "r77", "s37", "s45", "s46", "done"} =>
              \A k \in DOMAIN objs : objs[k].open = None

C8_Witness ==
    /\ entry = "session" /\ pc = "done" /\ n_runs = 2
    /\ OpsOf(CallsOn(1)) = RunOrderWithTest
    /\ OpsOf(CallsOn(2)) = RunOrderNoTest
    /\ CallsOn(2)[2].run = Some(1)
    /\ CallsOn(2)[6].run = Some(1)

\* C9: a failure is terminal and has no cleanup: when fit, validate or test
\* fails in run k, finish_logger_run(k) is not called and the logger run
\* stays open, recorder.update is not called for run k, and recorder.save is
\* never called.
C9_NoCleanup ==
    (/\ entry \in {"session", "run"}
     /\ Failed
     /\ \E j \in DOMAIN calls : ~calls[j].ok /\ calls[j].op \in {"fit", "validate", "test"}) =>
        /\ ~ENABLED Next
        /\ \A j \in DOMAIN calls :
              calls[j].op = "finish_logger_run" => calls[j].on # cur
        /\ objs[cur].open = Some(run_id)
        /\ CallsOf("save") = <<>>
        /\ recorder.saves = 0
        /\ entry = "session" =>
              /\ run_id = Some(run_index)
              /\ Len(recorder.updates) = run_index
              /\ Len(CallsOf("update")) = run_index

C9_Witness ==
    /\ entry = "session" /\ Failed /\ n_runs = 2 /\ run_index = 1
    /\ Last(calls).op = "test"
    /\ Len(recorder.updates) = 1
    /\ recorder.saves = 0
    /\ objs[2].open = Some(Some(1))

\* C10: with n_runs <= 0 a session makes no clone, fit, validate, test or
\* update, still creates the recorder and saves it once, with no update
\* received; n_runs is not validated and the code raises nothing of its own.
C10_NoRuns ==
    (entry = "session" /\ n_runs <= 0) =>
        /\ \A j \in DOMAIN calls :
              calls[j].op \in {"default_log_dir", "SessionRecorder", "save"}
        /\ DOMAIN objs = {0}
        /\ recorder.updates = <<>>
        /\ run_results = <<>>
        /\ Failed => Last(calls).op \in {"SessionRecorder", "save"}
        /\ pc = "s37" => ENABLED SessionLoop
        /\ pc = "s46" => recorder.created /\ recorder.saves = 0
        /\ pc = "done" =>
              /\ recorder.created
              /\ recorder.saves = 1
              /\ Len(CallsOf("save")) = 1
              /\ raised = None

C10_Witness ==
    /\ entry = "session" /\ n_runs = -1 /\ pc = "done"
    /\ recorder.created /\ recorder.saves = 1
    /\ recorder.updates = <<>>
    /\ Len(calls) = 3

====
